---------------------------- MODULE Spec2Model ----------------------------
(***************************************************************************)
(* Model of services/firewall.py: the firewall controller block_ip,        *)
(* unblock_ip and list_ids_rules, the privilege prober _is_windows_admin   *)
(* and the command executor _run_powershell.                               *)
(*                                                                         *)
(* Text (commands, messages, captured output, ip arguments) is a sequence  *)
(* of pieces; an f-string is the concatenation of its literal pieces and   *)
(* of the values substituted in it.  A piece is a string of characters     *)
(* that the model never needs to look inside.                              *)
(*                                                                         *)
(* The host (platform, process privilege, PowerShell and the firewall rule *)
(* store behind it) is the environment of the program.  It is modelled by  *)
(* what the issued command asks for: New-NetFirewallRule adds a rule with  *)
(* the given display name, Get-NetFirewallRule -DisplayName n piped into   *)
(* Remove-NetFirewallRule removes every rule displayed as n, the listing   *)
(* changes nothing; any command may also fail on the host (non-zero exit), *)
(* and the shell may be impossible to start (subprocess.run raises).       *)
(***************************************************************************)
EXTENDS Integers, Sequences, FiniteSets, TLC

\* Bounds of the model.
MaxOut == 2      \* pieces captured from the subprocess, stdout and stderr together
MaxRules == 3    \* IDS_Block_ rules the store holds at most

\* The ip arguments tried: the empty string, an address, and an address that
\* has the former as a proper prefix ("203.0.113.5" + "0").
IPs == { <<>>, <<"203.0.113.5">>, <<"203.0.113.5", "0">> }

\* Pieces of captured output; Whitespace is what str.strip() removes.
Whitespace == {" ", "\n", "\t"}
OutChars == {"\n", "DisplayName"}
ErrChars == {"\n", "RuleAlreadyExists"}
ExitCodes == {0, 1}

Systems == {"Windows", "Linux", "Darwin"}

VARIABLES
    system,          \* what platform.system() returns in this process
    elevated,        \* whether the process token is an administrator's
    store,           \* host firewall store: display name -> number of rules
    pre_store,       \* the store as it was when the last call began
    call,            \* the last call: ip, allow_real, dry_run and the function called (op)
    result,          \* what the last call returned, or that it raised
    prober_calls,    \* invocations of IsUserAnAdmin in the last call
    executor_calls,  \* invocations of subprocess.run in the last call
    executed,        \* the command handed to the executor in the last call
    proc             \* what the executor gave back in the last call

vars == <<system, elevated, store, pre_store, call, result,
          prober_calls, executor_calls, executed, proc>>

----------------------------------------------------------------------------
(* Text helpers *)

\* t occurs in s as a contiguous run of pieces (Python: t in s).
Contains(s, t) ==
    \E i \in 0..(Len(s) - Len(t)) : SubSeq(s, i + 1, i + Len(t)) = t

RECURSIVE lstrip(_)
lstrip(s) ==
    IF s # <<>> /\ Head(s) \in Whitespace THEN lstrip(Tail(s)) ELSE s

RECURSIVE rstrip(_)
rstrip(s) ==
    IF s # <<>> /\ s[Len(s)] \in Whitespace
    THEN rstrip(SubSeq(s, 1, Len(s) - 1)) ELSE s

\* str.strip()
strip(s) == rstrip(lstrip(s))

\* Python's `a or b` on strings: a unless it is empty.
OrElse(a, b) == IF a # <<>> THEN a ELSE b

\* str.lower() on the platform names.
lower(s) ==
    CASE s = "Windows" -> "windows"
      [] s = "Linux" -> "linux"
      [] s = "Darwin" -> "darwin"
      [] OTHER -> s

RECURSIVE SeqsUpTo(_, _)
SeqsUpTo(S, n) ==
    IF n = 0 THEN { <<>> }
    ELSE LET shorter == SeqsUpTo(S, n - 1)
         IN shorter \cup { Append(s, c) : s \in shorter, c \in S }

Outputs == SeqsUpTo(OutChars, MaxOut)
Errors == SeqsUpTo(ErrChars, MaxOut)


\* Total captured output of a failed command: at most MaxOut pieces in both streams.
Captured ==
    { <<o, e>> \in Outputs \X Errors : Len(o) + Len(e) <= MaxOut }

----------------------------------------------------------------------------
(* The host firewall store *)

\* A rule of the host that this program did not create.
Foreign == <<"Core Networking - DNS (UDP-Out)">>

Names == { <<"IDS_Block_">> \o ip : ip \in IPs } \cup { Foreign }

\* The rules the listing's filter -like "IDS_Block_*" keeps.
Matching(st) == { n \in Names : Head(n) = "IDS_Block_" /\ st[n] > 0 }

RECURSIVE Total(_, _)
Total(st, S) ==
    IF S = {} THEN 0
    ELSE LET n == CHOOSE x \in S : TRUE IN st[n] + Total(st, S \ {n})

\* Number of IDS_Block_ rules in the store.
Size(st) == Total(st, Names \ {Foreign})

Stores ==
    { st \in [Names -> 0..MaxRules] : st[Foreign] = 1 /\ Size(st) <= MaxRules }

----------------------------------------------------------------------------
(* PowerShell, as far as the three commands of the program use it *)

NewHead == "New-NetFirewallRule -DisplayName \""
GetHead == "Get-NetFirewallRule -DisplayName \""
ListHead == "Get-NetFirewallRule | "

\* The pieces that close the quoted display name in a command.
QuietClose == "\" -ErrorAction SilentlyContinue | "
LoudClose == "\" | "
NewClose == "\" -Direction Inbound -Action Block -RemoteAddress "
Closers == {QuietClose, LoudClose, NewClose}

MissingRule == "No MSFT_NetFirewallRule objects found"

\* Index of the piece closing the display name that opens at piece 2.
CloseAt(cmd) ==
    CHOOSE j \in 2..Len(cmd) :
        cmd[j] \in Closers /\ \A k \in 2..(j - 1) : cmd[k] \notin Closers

DisplayName(cmd) == SubSeq(cmd, 2, CloseAt(cmd) - 1)

NoProc ==
    [raised |-> FALSE, returncode |-> -1, stdout |-> <<>>, stderr |-> <<>>]

Completed(rc, out, err) ==
    [raised |-> FALSE, returncode |-> rc, stdout |-> out, stderr |-> err]

\* subprocess.run could not start powershell: it raises, nothing ran.
SpawnFailure ==
    [raised |-> TRUE, returncode |-> -1, stdout |-> <<>>, stderr |-> <<>>]

\* What running cmd against store st may give: <<outcome, store afterwards>>.
PSOutcomes(cmd, st) ==
    LET failed ==
            { <<Completed(rc, c[1], c[2]), st>> :
                rc \in ExitCodes \ {0}, c \in Captured }
        ran ==
            CASE Head(cmd) = NewHead ->
                   LET n == DisplayName(cmd)
                   IN IF Size(st) < MaxRules
                      THEN { <<Completed(0, <<"DisplayName", "\n">>, <<>>),
                               [st EXCEPT ![n] = @ + 1]>> }
                      ELSE {}
              [] Head(cmd) = GetHead ->
                   LET n == DisplayName(cmd)
                   IN IF st[n] > 0 \/ cmd[CloseAt(cmd)] = QuietClose
                      THEN { <<Completed(0, <<>>, <<>>), [st EXCEPT ![n] = 0]>> }
                      ELSE { <<Completed(1, <<>>, <<MissingRule, "\n">>), st>> }
              [] Head(cmd) = ListHead ->
                   { <<Completed(0, o, <<>>), st>> :
                       o \in { x \in Outputs : (strip(x) = <<>>) = (Matching(st) = {}) } }
              [] OTHER -> {}
    IN { <<SpawnFailure, st>> } \cup failed \cup ran

----------------------------------------------------------------------------
(* services/firewall.py *)

None == <<>>
Some(x) == <<x>>

\* The emoji that open the outcome messages, one piece each.
CheckMark == "U+2705"
CrossMark == "U+274C"

FirewallResult(ok, message, command) ==
    [raised |-> FALSE, ok |-> ok, message |-> message, command |-> command]

\* An exception left the function: there is no FirewallResult.
Raised ==
    [raised |-> TRUE, ok |-> FALSE, message |-> <<>>, command |-> None]

\* What a call did: its result and its uses of the prober and the executor.
Did(res, probes, cmds) ==
    [result |-> res, prober_calls |-> probes, executor_calls |-> Len(cmds),
     executed |-> cmds]

is_windows_admin_always == system = "Windows"

\* ctypes.windll exists on Windows only; IsUserAnAdmin() is non-zero for an
\* administrator's token; any exception gives False.
is_windows_admin ==
    IF system = "Windows" THEN elevated ELSE FALSE

only_allow_real(allow_real, dry_run) == ~allow_real

only_dry_run(allow_real, dry_run) == dry_run

\* `if dry_run or not allow_real:`
prepared_only(allow_real, dry_run) == dry_run \/ ~allow_real

not_linux == lower(system) # "linux"

\* `if platform.system().lower() == "windows":`
on_windows == lower(system) = "windows"

stdout_first(run) == OrElse(strip(run.stdout), strip(run.stderr))

\* `err = proc.stderr.strip() or proc.stdout.strip()`
error_text(run) == OrElse(strip(run.stderr), strip(run.stdout))

denied_without_command(cmd) ==
    FirewallResult(FALSE,
        <<"Access denied. Run VS Code / PowerShell / Streamlit as **Administrator**, then try again.">>,
        None)

access_denied(cmd) ==
    FirewallResult(FALSE,
        <<"Access denied. Run VS Code / PowerShell / Streamlit as **Administrator**, then try again.">>,
        Some(cmd))

not_supported(cmd) ==
    FirewallResult(FALSE, <<"Firewall backend not supported on this OS.">>, Some(cmd))

block_cmd(ip) ==
    <<"New-NetFirewallRule -DisplayName \"", "IDS_Block_">> \o ip
      \o <<"\" -Direction Inbound -Action Block -RemoteAddress ">> \o ip
      \o <<" -Profile Any">>

\* run: what the executor gives back if it is invoked.
block_ip(ip, allow_real, dry_run, run) ==
    LET cmd == block_cmd(ip)
    IN IF prepared_only(allow_real, dry_run)
       THEN Did(FirewallResult(TRUE,
                  <<"(Dry-run) Block command prepared. Enable REAL blocking + run Streamlit/VS Code as Admin to apply.">>,
                  Some(cmd)), 0, <<>>)
       ELSE IF on_windows
       THEN IF ~is_windows_admin
            THEN Did(access_denied(cmd), 1, <<>>)
            ELSE IF run.raised
            THEN Did(Raised, 1, <<cmd>>)
            ELSE IF run.returncode = 0
            THEN Did(FirewallResult(TRUE,
                       <<CheckMark, " Blocked ">> \o ip
                         \o <<" (Windows Firewall rule added).">>,
                       Some(cmd)), 1, <<cmd>>)
            ELSE Did(FirewallResult(FALSE,
                       <<CrossMark, " Block failed: ">> \o error_text(run),
                       Some(cmd)), 1, <<cmd>>)
       ELSE Did(not_supported(cmd), 0, <<>>)

unblock_cmd_loud(ip) ==
    <<"Get-NetFirewallRule -DisplayName \"", "IDS_Block_">> \o ip
      \o <<"\" | ", "Remove-NetFirewallRule">>

unblock_cmd_prefix(ip) ==
    <<"Get-NetFirewallRule -DisplayName \"", "IDS_Block_">>
      \o <<"\" -ErrorAction SilentlyContinue | ",
           "Remove-NetFirewallRule -ErrorAction SilentlyContinue">>

unblock_cmd(ip) ==
    <<"Get-NetFirewallRule -DisplayName \"", "IDS_Block_">> \o ip
      \o <<"\" -ErrorAction SilentlyContinue | ",
           "Remove-NetFirewallRule -ErrorAction SilentlyContinue">>

unblock_ip(ip, allow_real, dry_run, run) ==
    LET cmd == unblock_cmd(ip)
    IN IF prepared_only(allow_real, dry_run)
       THEN Did(FirewallResult(TRUE,
                  <<"(Dry-run) Unblock command prepared. Enable REAL blocking + run as Admin to apply.">>,
                  Some(cmd)), 0, <<>>)
       ELSE IF on_windows
       THEN IF ~is_windows_admin
            THEN Did(access_denied(cmd), 1, <<>>)
            ELSE IF run.raised
            THEN Did(Raised, 1, <<cmd>>)
            ELSE IF run.returncode = 0
            THEN Did(FirewallResult(TRUE,
                       <<CheckMark, " Unblock attempted for ">> \o ip
                         \o <<". (If rule existed, it was removed.)">>,
                       Some(cmd)), 1, <<cmd>>)
            ELSE Did(FirewallResult(FALSE,
                       <<CrossMark, " Unblock failed: ">> \o error_text(run),
                       Some(cmd)), 1, <<cmd>>)
       ELSE Did(not_supported(cmd), 0, <<>>)

list_cmd ==
    <<"Get-NetFirewallRule | ",
      "Where-Object {$_.DisplayName -like \"IDS_Block_*\"} | ",
      "Select DisplayName,Enabled,Direction,Action | Format-Table -AutoSize">>

listing_raw(out) == out

\* `message=out or "(No IDS rules found)"`
listing(out) == OrElse(out, <<"(No IDS rules found)">>)

list_ids_rules(run) ==
    IF ~on_windows
    THEN Did(FirewallResult(FALSE, <<"Rule listing supported only on Windows.">>, None),
             0, <<>>)
    ELSE LET cmd == list_cmd
         IN IF run.raised
            THEN Did(Raised, 0, <<cmd>>)
            ELSE IF run.returncode = 0
            THEN LET out == strip(run.stdout)
                 IN Did(FirewallResult(TRUE, listing(out), Some(cmd)), 0, <<cmd>>)
            ELSE Did(FirewallResult(FALSE, error_text(run), Some(cmd)), 0, <<cmd>>)

----------------------------------------------------------------------------
(* The state machine: a sequence of calls against one host *)

NoCall == [ip |-> <<>>, allow_real |-> FALSE, dry_run |-> FALSE, op |-> "none"]

Init ==
    /\ system \in Systems
    /\ elevated \in BOOLEAN
    /\ store \in Stores
    /\ pre_store = store
    /\ call = NoCall
    /\ result = FirewallResult(TRUE, <<>>, None)
    /\ prober_calls = 0
    /\ executor_calls = 0
    /\ executed = <<>>
    /\ proc = NoProc

\* The function a call record names, applied to its arguments; run is what
\* the executor gives back if it is invoked.
Dispatch(c, run) ==
    CASE c.op = "block_ip" -> block_ip(c.ip, c.allow_real, c.dry_run, run)
      [] c.op = "unblock_ip" -> unblock_ip(c.ip, c.allow_real, c.dry_run, run)
      [] c.op = "list_ids_rules" -> list_ids_rules(run)

\* What one whole call c does: the executor, if the call invokes it, answers
\* as the host does for the command and the store; the store changes only then.
Perform(c) ==
    LET cmds == Dispatch(c, NoProc).executed
        runs == IF cmds = <<>> THEN { <<NoProc, store>> }
                ELSE PSOutcomes(cmds[1], store)
    IN \E r \in runs :
         LET did == Dispatch(c, r[1])
         IN /\ call' = c
            /\ result' = did.result
            /\ prober_calls' = did.prober_calls
            /\ executor_calls' = did.executor_calls
            /\ executed' = did.executed
            /\ proc' = r[1]
            /\ store' = r[2]

BlockIp ==
    \E ip \in IPs, allow_real \in BOOLEAN, dry_run \in BOOLEAN :
        LET c == [ip |-> ip, allow_real |-> allow_real, dry_run |-> dry_run,
                  op |-> "block_ip"]
        IN /\ Perform(c)
           /\ pre_store' = store
           /\ UNCHANGED <<system, elevated>>

UnblockIp ==
    \E ip \in IPs, allow_real \in BOOLEAN, dry_run \in BOOLEAN :
        LET c == [ip |-> ip, allow_real |-> allow_real, dry_run |-> dry_run,
                  op |-> "unblock_ip"]
        IN /\ Perform(c)
           /\ pre_store' = store
           /\ UNCHANGED <<system, elevated>>

ListIdsRules ==
    LET c == [ip |-> <<>>, allow_real |-> FALSE, dry_run |-> FALSE,
              op |-> "list_ids_rules"]
    IN /\ Perform(c)
       /\ pre_store' = store
       /\ UNCHANGED <<system, elevated>>

Next == BlockIp \/ UnblockIp \/ ListIdsRules

Spec == Init /\ [][Next]_vars

TypeOK ==
    /\ system \in Systems
    /\ elevated \in BOOLEAN
    /\ store \in Stores
    /\ pre_store \in Stores
    /\ executor_calls \in 0..1
    /\ prober_calls \in 0..1

----------------------------------------------------------------------------
(* Vocabulary of the properties *)

RuleName(ip) == <<"IDS_Block_">> \o ip

BlockOrUnblock == call.op \in {"block_ip", "unblock_ip"}

\* ExecutionMode REAL: allow_real and not dry_run.
RealMode == call.allow_real /\ ~call.dry_run

\* The command the last block_ip or unblock_ip call builds from its ip.
CommandFor(c) ==
    IF c.op = "block_ip" THEN block_cmd(c.ip) ELSE unblock_cmd(c.ip)

\* The last call returned a FirewallResult carrying exactly the command built from ip.
CommandPopulated ==
    /\ ~result.raised
    /\ result.command = Some(CommandFor(call))

NoSideEffect == executor_calls = 0 /\ store = pre_store

\* What the last call is observed to have done.
Observed ==
    [result |-> result, prober_calls |-> prober_calls,
     executor_calls |-> executor_calls, executed |-> executed]

\* The executor of the last call ran the command to an exit code.
Exited == executor_calls = 1 /\ ~proc.raised

PrivilegedReal == RealMode /\ system = "Windows" /\ elevated

----------------------------------------------------------------------------
(* C1 *)

\* C1: a block_ip or unblock_ip call with dry_run = true returns ok = true
\* with a command containing the rule name IDS_Block_<ip>, whatever ip and
\* allow_real are and on any platform, and invokes neither the privilege
\* prober nor the executor; the store is unchanged.
C1_DryRunPrepares ==
    (BlockOrUnblock /\ call.dry_run) =>
        /\ ~result.raised
        /\ result.ok
        /\ Len(result.command) = 1
        /\ Contains(result.command[1], RuleName(call.ip))
        /\ prober_calls = 0
        /\ NoSideEffect

C1_Witness ==
    /\ call.op = "unblock_ip" /\ call.dry_run /\ call.allow_real
    /\ call.ip = <<"203.0.113.5", "0">>
    /\ system = "Windows" /\ elevated
    /\ pre_store[RuleName(call.ip)] > 0
    /\ result.ok

----------------------------------------------------------------------------
(* C2 *)

\* C2: on Windows a REAL-mode block_ip or unblock_ip call from a process
\* without administrator privilege returns ok = false with the access-denied
\* message and the command populated, and the executor is never invoked.
C2_PrivilegeGate ==
    (BlockOrUnblock /\ RealMode /\ system = "Windows" /\ ~elevated) =>
        /\ CommandPopulated
        /\ ~result.ok
        /\ Contains(result.message,
             <<"Access denied. Run VS Code / PowerShell / Streamlit as **Administrator**, then try again.">>)
        /\ NoSideEffect

C2_Witness ==
    /\ call.op = "block_ip" /\ RealMode /\ system = "Windows" /\ ~elevated
    /\ call.ip = <<"203.0.113.5">>
    /\ prober_calls = 1
    /\ ~result.ok

----------------------------------------------------------------------------
(* C3 *)

\* C3: no exception escapes block_ip, unblock_ip or list_ids_rules: every
\* call, also one whose executor cannot start the PowerShell subprocess,
\* ends in a returned FirewallResult (with ok = false on failure).
C3_NoExceptionEscapes ==
    /\ ~result.raised
    /\ (executor_calls = 1 /\ proc.raised) => ~result.ok

----------------------------------------------------------------------------
(* C4 *)

\* C4: a block_ip or unblock_ip call with allow_real = false, dry_run = false
\* returns the same FirewallResult and uses the prober and the executor the
\* same way (not at all) as the same call with dry_run = true, whatever the
\* platform, the privilege and the executor would answer.
C4_DisabledIsDryRun ==
    (BlockOrUnblock /\ ~call.allow_real /\ ~call.dry_run) =>
        /\ NoSideEffect
        /\ prober_calls = 0
        /\ \A r \in PSOutcomes(CommandFor(call), pre_store) :
             Observed = IF call.op = "block_ip"
                        THEN block_ip(call.ip, FALSE, TRUE, r[1])
                        ELSE unblock_ip(call.ip, FALSE, TRUE, r[1])

C4_Witness ==
    /\ call.op = "block_ip" /\ ~call.allow_real /\ ~call.dry_run
    /\ system = "Windows" /\ elevated
    /\ call.ip = <<"203.0.113.5">>
    /\ result.ok /\ result.command = Some(block_cmd(call.ip))

----------------------------------------------------------------------------
(* C5 *)

\* C5: on a platform other than Windows a REAL-mode block_ip or unblock_ip
\* call returns ok = false with the unsupported-backend message and the
\* command populated, whatever the privilege, and never invokes the executor.
C5_PlatformGate ==
    (BlockOrUnblock /\ RealMode /\ system # "Windows") =>
        /\ CommandPopulated
        /\ ~result.ok
        /\ result.message = <<"Firewall backend not supported on this OS.">>
        /\ NoSideEffect

C5_Witness ==
    /\ call.op = "unblock_ip" /\ RealMode /\ system = "Darwin" /\ elevated
    /\ pre_store[RuleName(call.ip)] > 0
    /\ ~result.ok

----------------------------------------------------------------------------
(* C6 *)

\* A privileged REAL-mode unblock_ip(ip) on Windows that found no rule named
\* IDS_Block_<ip> in the store.
UnblockOfMissing ==
    /\ call.op = "unblock_ip" /\ PrivilegedReal
    /\ pre_store[RuleName(call.ip)] = 0

\* C6 as stated: in REAL mode on Windows with privilege, unblock_ip(ip)
\* called when no rule named IDS_Block_<ip> exists reports ok = true and
\* leaves the store unchanged.  Stated here of the calls that return, so that
\* the exception of C3 is not what refutes it.
C6_UnblockMissingAlwaysOk ==
    (UnblockOfMissing /\ ~result.raised) =>
        /\ result.ok
        /\ store = pre_store

\* C6 amended: such a call leaves the store unchanged and never reports a
\* missing rule: the executor is invoked once with the command that
\* suppresses the not-found error, its output never carries that error, and
\* the call reports ok = true exactly when the executor exits with code 0;
\* ok = false comes only from a non-zero exit of the host, and no result at
\* all when the shell cannot be started.
C6_UnblockMissingIdempotent ==
    UnblockOfMissing =>
        /\ store = pre_store
        /\ executed = <<unblock_cmd(call.ip)>>
        /\ ~Contains(proc.stderr, <<MissingRule>>)
        /\ ~Contains(result.message, <<MissingRule>>)
        /\ Exited => (result.ok <=> proc.returncode = 0)
        /\ proc.raised <=> result.raised

C6_Witness ==
    /\ UnblockOfMissing
    /\ call.ip = <<"203.0.113.5">>
    /\ pre_store[RuleName(<<"203.0.113.5", "0">>)] > 0
    /\ Exited /\ proc.returncode = 0
    /\ result.ok
    /\ store = pre_store

----------------------------------------------------------------------------
(* C7 *)

\* C7: every FirewallResult returned by block_ip or unblock_ip, in every
\* branch, has command populated with the command built from ip; a returned
\* result has command absent only for list_ids_rules on a platform other
\* than Windows, which returns ok = false without invoking the executor.
C7_CommandPopulated ==
    /\ (BlockOrUnblock /\ ~result.raised) => result.command = Some(CommandFor(call))
    /\ (call.op # "none" /\ ~result.raised /\ result.command = None) =>
          call.op = "list_ids_rules" /\ system # "Windows"
    /\ (call.op = "list_ids_rules" /\ system # "Windows") =>
          /\ ~result.raised
          /\ ~result.ok
          /\ result.command = None
          /\ NoSideEffect

\* The five branches of block_ip and unblock_ip, told apart by what was done.
C7_Branch ==
    CASE ~BlockOrUnblock -> "none"
      [] executor_calls = 1 /\ proc.raised -> "raised"
      [] executor_calls = 1 /\ proc.returncode = 0 -> "success"
      [] executor_calls = 1 -> "failure"
      [] prober_calls = 1 -> "denied"
      [] ~RealMode -> "dry-run"
      [] OTHER -> "unsupported"

C7_Witness ==
    /\ C7_Branch = "denied"
    /\ call.op = "unblock_ip"
    /\ call.ip = <<>>
    /\ result.command = Some(unblock_cmd(<<>>))

C7_WitnessList ==
    /\ call.op = "list_ids_rules" /\ system = "Linux"
    /\ result.command = None

----------------------------------------------------------------------------
(* C8 *)

\* C8: on Windows list_ids_rules invokes the executor exactly once, with the
\* listing command, without consulting the privilege prober (and whatever the
\* privilege is); when the executor exits 0 the result is ok = true with
\* message the trimmed stdout, or "(No IDS rules found)" when the trimmed
\* stdout is empty, which is the case when no rule matches; when it exits
\* non-zero the result is ok = false; the store is unchanged.
C8_List ==
    (call.op = "list_ids_rules" /\ system = "Windows") =>
        /\ executor_calls = 1
        /\ executed = <<list_cmd>>
        /\ prober_calls = 0
        /\ store = pre_store
        /\ (Exited /\ proc.returncode = 0) =>
              /\ result.ok
              /\ result.command = Some(list_cmd)
              /\ result.message =
                    IF strip(proc.stdout) = <<>>
                    THEN <<"(No IDS rules found)">>
                    ELSE strip(proc.stdout)
              /\ Matching(pre_store) = {} => result.message = <<"(No IDS rules found)">>
        /\ (Exited /\ proc.returncode # 0) => ~result.raised /\ ~result.ok

C8_Witness ==
    /\ call.op = "list_ids_rules" /\ system = "Windows" /\ ~elevated
    /\ Matching(pre_store) = {}
    /\ Exited /\ proc.returncode = 0
    /\ proc.stdout = <<"\n">>
    /\ result.message = <<"(No IDS rules found)">>

C8_WitnessRules ==
    /\ call.op = "list_ids_rules" /\ system = "Windows"
    /\ Exited /\ proc.returncode = 0
    /\ proc.stdout = <<"DisplayName", "\n">>
    /\ result.message = <<"DisplayName">>

----------------------------------------------------------------------------
(* C9 *)

PrivilegedBlock == call.op = "block_ip" /\ PrivilegedReal

\* The block command of section 6 for 203.0.113.5, piece by piece.
BlockTemplate ==
    <<"New-NetFirewallRule -DisplayName \"", "IDS_Block_", "203.0.113.5",
      "\" -Direction Inbound -Action Block -RemoteAddress ", "203.0.113.5",
      " -Profile Any">>

\* The executor was invoked exactly once with the block command for ip, and
\* exit code 0 gave ok = true with a blocked message.
C9_InvokedAndSuccessMapped ==
    /\ executor_calls = 1
    /\ executed = <<block_cmd(call.ip)>>
    /\ call.ip = <<"203.0.113.5">> => executed = <<BlockTemplate>>
    /\ (Exited /\ proc.returncode = 0) =>
          /\ result.ok
          /\ Contains(result.message, <<" Blocked ">> \o call.ip)
          /\ result.command = Some(block_cmd(call.ip))
    /\ (Exited /\ proc.returncode # 0) =>
          /\ ~result.raised
          /\ ~result.ok
          /\ Contains(result.message, <<" Block failed: ">>)
          /\ result.command = Some(block_cmd(call.ip))

\* C9 as stated: a privileged REAL-mode block_ip on Windows invokes the
\* executor exactly once with the block command and maps its outcome; on a
\* non-zero exit code the message contains the captured stderr, or the
\* captured stdout when stderr is empty after trimming.
C9_MessageHasCapturedOutput ==
    PrivilegedBlock =>
        /\ C9_InvokedAndSuccessMapped
        /\ (Exited /\ proc.returncode # 0) =>
              Contains(result.message,
                       IF strip(proc.stderr) # <<>> THEN proc.stderr ELSE proc.stdout)

\* C9 amended: as stated, but on a non-zero exit code the message ends with
\* the captured stderr with its leading and trailing whitespace removed, or
\* with the captured stdout so trimmed when the trimmed stderr is empty.
C9_MessageHasTrimmedOutput ==
    PrivilegedBlock =>
        /\ C9_InvokedAndSuccessMapped
        /\ (Exited /\ proc.returncode # 0) =>
              result.message =
                  <<CrossMark, " Block failed: ">>
                    \o (IF strip(proc.stderr) # <<>>
                        THEN strip(proc.stderr) ELSE strip(proc.stdout))

C9_Witness ==
    /\ PrivilegedBlock
    /\ call.ip = <<"203.0.113.5">>
    /\ Exited /\ proc.returncode = 1
    /\ proc.stderr = <<"RuleAlreadyExists">>
    /\ ~result.ok
    /\ Contains(result.message, <<"RuleAlreadyExists">>)

C9_WitnessFallback ==
    /\ PrivilegedBlock
    /\ Exited /\ proc.returncode = 1
    /\ proc.stderr = <<"\n">> /\ proc.stdout = <<"DisplayName">>
    /\ result.message = <<CrossMark, " Block failed: ", "DisplayName">>

----------------------------------------------------------------------------
(* C10 *)

\* The store changes only in privileged REAL-mode block_ip and unblock_ip
\* calls on Windows, and then only at the rule name of the call's ip: a
\* block_ip only adds there, an unblock_ip only removes there; rules of
\* other names, those of other addresses and of the host, are untouched;
\* list_ids_rules never changes the store.
C10_Frame ==
    /\ store # pre_store => BlockOrUnblock /\ PrivilegedReal /\ executor_calls = 1
    /\ call.op = "list_ids_rules" => store = pre_store
    /\ BlockOrUnblock =>
          \A n \in Names : n # RuleName(call.ip) => store[n] = pre_store[n]
    /\ call.op = "block_ip" =>
          store[RuleName(call.ip)] >= pre_store[RuleName(call.ip)]
    /\ call.op = "unblock_ip" =>
          store[RuleName(call.ip)] <= pre_store[RuleName(call.ip)]

\* C10 as stated: over any sequence of calls the store changes only as
\* C10_Frame says, and a privileged REAL-mode unblock_ip(ip) on Windows
\* leaves no rule named IDS_Block_<ip> in the store, however many there were.
\* Stated here of the calls that return, so that the exception of C3 is not
\* what refutes it.
C10_UnblockAlwaysRemoves ==
    /\ C10_Frame
    /\ (call.op = "unblock_ip" /\ PrivilegedReal /\ ~result.raised) =>
          store[RuleName(call.ip)] = 0

\* C10 amended: as stated, but it is an unblock_ip that reports ok = true
\* that leaves no rule named IDS_Block_<ip>; one that reports ok = false, or
\* raises, leaves the store as it was.
C10_OkUnblockRemoves ==
    /\ C10_Frame
    /\ (call.op = "unblock_ip" /\ PrivilegedReal) =>
          IF ~result.raised /\ result.ok
          THEN store[RuleName(call.ip)] = 0
          ELSE store = pre_store
    /\ (call.op = "block_ip" /\ PrivilegedReal) =>
          IF ~result.raised /\ result.ok
          THEN store[RuleName(call.ip)] = pre_store[RuleName(call.ip)] + 1
          ELSE store = pre_store

C10_Witness ==
    /\ call.op = "unblock_ip" /\ PrivilegedReal
    /\ call.ip = <<"203.0.113.5">>
    /\ pre_store[RuleName(<<"203.0.113.5">>)] > 1
    /\ pre_store[RuleName(<<"203.0.113.5", "0">>)] > 0
    /\ result.ok
    /\ store[RuleName(<<"203.0.113.5">>)] = 0
    /\ store[RuleName(<<"203.0.113.5", "0">>)] = pre_store[RuleName(<<"203.0.113.5", "0">>)]

=============================================================================
